---- MODULE Spec2Model ----
(***************************************************************************)
(* EthaTunnel: the server runtime (network.Serve, handleClient), the       *)
(* client runtime (main, register), the clienttcptunforward pumps (ToTCP,  *)
(* ToTun) and the handshake message parsers, as one state machine.  A      *)
(* behaviour is one run of one of the repository's programs against a      *)
(* nondeterministic network peer; `program` says which one runs.           *)
(***************************************************************************)
EXTENDS Integers, Sequences, FiniteSets, TLC

\* ---------------------------------------------------------------- bounds
MaxConns == 2
MaxCounter == 2

\* ------------------------------------------------------------- constants
\* buf := make([]byte, 65535) and the `length > 65535` check of handleClient
ServerMaxPacket == 65535
\* buf := make([]byte, 65535) and the `length > 65535` check of the client's main
ClientMaxPacket == 65535
\* const maxPacketLengthBytes of package clienttcptunforward
maxPacketLengthBytes == 65535

\* the largest uint64.  A uint64 counter is written as the integer nearest 0
\* that is congruent to it modulo 2^64: 2^64 - 1 is -1, 2^64 - 2 is -2, and
\* adding 1 to 2^64 - 1 gives 0, as atomic.AddUint64 does.
Uint64Max == 0 - 1
\* chacha20poly1305.Overhead: Encrypt returns the plaintext's length plus the tag
Overhead == 16
\* sizes tunFile.Read can return into the 65535-byte buffer
PacketSizes == {84, 65519, 65520, 65535}

Conns == 1..MaxConns
\* tunnel-local addresses the connecting clients are configured with
InnerIPs == {"10.0.0.2", "10.0.0.3"}
\* destinations of the packets the server TUN emits; 10.0.0.9 belongs to nobody
DstIPs == InnerIPs \cup {"10.0.0.9"}
NoIP == "0.0.0.0"

\* 4-byte length prefixes a peer can put on the wire:
\* 0, 65535 and 65536 (0x00010000)
Prefixes ==
    { <<0, 0, 0, 0>>, <<0, 0, 255, 255>>, <<0, 1, 0, 0>> }

VARIABLES
    program,      \* which executable/package this behaviour runs
    srvPc,        \* Serve: "start", "accept" (the accept loop), "returned", or
                  \* "killed" (the process was terminated while Serve was running)
    iptables,     \* rules installed by enableNAT / setupForwarding
    clients,      \* the sync.Map of Serve: RemoteAddr -> conn
    connState,    \* per call of listener.Accept: "none" (not yet made), "failed" (it
                  \* returned an error), "open", "closed" (the conn it returned)
    innerIP,      \* per conn: the tunnel-local IP its client declared
    lastFrame,    \* per conn: what handleClient did with the last frame it read
    sawOversize,  \* per conn: a prefix > 65535 has been received on it
    lastDispatch, \* the dispatcher's last iteration: packet and who was written to
    cliPc,        \* client main: "hello", "serverHello", "signature", "running", "exited"
    confKey,      \* the server Ed25519 public key of the client's configuration
    hsSent,       \* handshake messages the client has written to the connection
    serverHello,  \* the ServerHello register read
    session,      \* the ChaCha20.Session: C2SCounter, S2CCounter, SessionId
    sendPc,       \* the TUN -> TCP pump
    recvPc,       \* the TCP -> TUN pump
    ctxDone,      \* ctx of ToTCP / ToTun has been cancelled
    cliConn,      \* the client's TCP connection: "open" or "closed"
    s2cSent,      \* number of frames the server has sealed and sent in this behaviour
    encNonces,    \* counters under which the TUN -> TCP pump sealed a frame, in order
    accepted,     \* counters of the frames the TCP -> TUN pump accepted, in order
    lastRx,       \* what the TCP -> TUN pump did with the last frame it read
    lastTx,       \* what the TUN -> TCP pump did in its last iteration
    writers,      \* per session counter: the pumps that have changed it
    helloIn,      \* the bytes handed to ClientHello.Read: the slice and its capacity
    helloOut,     \* what ClientHello.Read returned
    shFields,     \* the signature, nonce and curve key handed to ServerHello.Write
    shWire,       \* what ServerHello.Write returned
    shRead        \* the bytes handed to ServerHello.Read and what it returned

srvVars == <<srvPc, iptables, clients, connState, innerIP, lastFrame, sawOversize, lastDispatch>>
cliVars == <<cliPc, confKey, hsSent, serverHello, session, sendPc, recvPc, ctxDone, cliConn,
             s2cSent, encNonces, accepted, lastRx, lastTx, writers>>
helloVars == <<helloIn, helloOut, shFields, shWire, shRead>>
vars == <<program, srvVars, cliVars, helloVars>>

\* ------------------------------------------------------------ frame codec
\* binary.BigEndian.Uint32
BigEndianUint32(b) == ((b[1] * 256 + b[2]) * 256 + b[3]) * 256 + b[4]

\* ---------------------------------------------------- platform (iptables)
enableNAT(rules) == rules \cup {"nat"}
disableNAT(rules) == rules \ {"nat"}
clearForwarding(rules) == rules \ {"fwd_in", "fwd_out"}

\* setupForwarding: two iptables -A commands; failAt names the one that fails
setupForwarding(rules, failAt) ==
    IF failAt = "fwd_in" THEN rules
    ELSE IF failAt = "fwd_out" THEN rules \cup {"fwd_in"}
    ELSE rules \cup {"fwd_in", "fwd_out"}

StartupSteps == {"GetDefaultIf", "enableNAT", "fwd_in", "fwd_out", "Listen", "none"}

\* The rules left behind when Serve's startup fails at failAt ("none": it does
\* not fail), with the deferred disableNAT / clearForwarding that are registered
\* by then run on return.
ServeStartupRules(failAt) ==
    IF failAt \in {"GetDefaultIf", "enableNAT"} THEN {}
    ELSE IF failAt \in {"fwd_in", "fwd_out"}
         THEN disableNAT(setupForwarding(enableNAT({}), failAt))
    ELSE IF failAt = "Listen"
         THEN disableNAT(clearForwarding(setupForwarding(enableNAT({}), failAt)))
    ELSE setupForwarding(enableNAT({}), failAt)

\* ------------------------------------------------------------ server: map
\* one key shared by every connection
SharedAddr(c) == <<"raddr", 0>>

\* conn.RemoteAddr(): the peer address object of the connection, one per conn
RemoteAddr(c) == <<"raddr", c>>

\* clients.Store(key, value)
Store(m, k, v) == [x \in DOMAIN m \cup {k} |-> IF x = k THEN v ELSE m[x]]
\* the whole map emptied instead of one key
DeleteAll(m, k) == << >>

\* clients.Delete(key)
Delete(m, k) == [x \in DOMAIN m \ {k} |-> m[x]]
\* the connections the map holds
Stored(m) == {m[k] : k \in DOMAIN m}

NoFrame == [hdr |-> "none", length |-> 0, wrote |-> FALSE, tun |-> "none"]
NoDispatch == [read |-> "none", dst |-> NoIP, wroteTo |-> {}]

\* ---------------------------------------------------------- server: Serve
ServeStartup ==
    /\ program = "server"
    /\ srvPc = "start"
    /\ \E failAt \in StartupSteps :
         /\ iptables' = ServeStartupRules(failAt)
         /\ srvPc' = IF failAt = "none" THEN "accept" ELSE "returned"
    /\ UNCHANGED <<program, clients, connState, innerIP, lastFrame, sawOversize, lastDispatch, cliVars, helloVars>>

\* Serve performs no handshake on the connection Accept returned: the next
\* statements after the error check are clients.Store and `go handleClient`.
HandshakeCompleted(c) == FALSE

\* One iteration of the accept loop: listener.Accept(), clients.Store, go handleClient.
\* A failed Accept is logged and the loop continues.
Accept ==
    /\ program = "server"
    /\ srvPc = "accept"
    /\ \E c \in Conns, ok \in BOOLEAN :
       \E ip \in (IF ok THEN InnerIPs ELSE {NoIP}) :
         /\ connState[c] = "none"
         /\ \A d \in Conns : d < c => connState[d] # "none"
         /\ IF ok
            THEN /\ connState' = [connState EXCEPT ![c] = "open"]
                 /\ innerIP' = [innerIP EXCEPT ![c] = ip]
                 /\ clients' = Store(clients, RemoteAddr(c), c)
            ELSE /\ connState' = [connState EXCEPT ![c] = "failed"]
                 /\ UNCHANGED <<innerIP, clients>>
    /\ UNCHANGED <<program, srvPc, iptables, lastFrame, sawOversize, lastDispatch, cliVars, helloVars>>

\* the length check off by one
PacketTooLargeOffByOne(length) == length > ServerMaxPacket + 1

\* `if length > 65535` of handleClient
PacketTooLarge(length) == length > ServerMaxPacket

\* One iteration of handleClient's loop on one frame, as a record of what it
\* did: whether WriteToTun was called and whether the loop goes on.
\*   hdr  : result of io.ReadFull(conn, buf[:4])   "ok" | "eof" | "err"
\*   body : result of io.ReadFull(conn, buf[:length])  "ok" | "err"
\*   tun  : result of WriteToTun                    "ok" | "err"
handleFrame(hdr, prefix, body, tun) ==
    LET length == BigEndianUint32(prefix) IN
    IF hdr # "ok"
    THEN [hdr |-> hdr, length |-> 0, wrote |-> FALSE, tun |-> "none", goOn |-> FALSE]
    ELSE IF PacketTooLarge(length)
    THEN [hdr |-> hdr, length |-> length, wrote |-> FALSE, tun |-> "none", goOn |-> FALSE]
    ELSE IF length > 0 /\ body # "ok"
    THEN [hdr |-> hdr, length |-> length, wrote |-> FALSE, tun |-> "none", goOn |-> FALSE]
    ELSE [hdr |-> hdr, length |-> length, wrote |-> TRUE, tun |-> tun, goOn |-> tun = "ok"]

\* handleClient: one loop iteration; when the loop returns, the deferred
\* clients.Delete(conn.RemoteAddr()) and conn.Close() run.
handleClient(c) ==
    /\ program = "server"
    /\ srvPc = "accept"
    /\ connState[c] = "open"
    /\ \E hdr \in {"ok", "eof", "err"} :
       \E prefix \in (IF hdr = "ok" THEN Prefixes ELSE {<<0, 0, 0, 0>>}) :
       \E body \in (IF hdr = "ok" /\ ~PacketTooLarge(BigEndianUint32(prefix))
                      THEN {"ok", "err"} ELSE {"ok"}) :
       \E tun \in (IF body = "ok" /\ hdr = "ok" /\ ~PacketTooLarge(BigEndianUint32(prefix))
                     THEN {"ok", "err"} ELSE {"ok"}) :
         LET r == handleFrame(hdr, prefix, body, tun) IN
         /\ lastFrame' = [lastFrame EXCEPT ![c] =
                [hdr |-> r.hdr, length |-> r.length, wrote |-> r.wrote, tun |-> r.tun]]
         /\ sawOversize' = [sawOversize EXCEPT ![c] =
                @ \/ (hdr = "ok" /\ BigEndianUint32(prefix) > 65535)]
         /\ IF r.goOn
            THEN UNCHANGED <<clients, connState>>
            ELSE /\ clients' = Delete(clients, RemoteAddr(c))
                 /\ connState' = [connState EXCEPT ![c] = "closed"]
    /\ UNCHANGED <<program, srvPc, iptables, innerIP, lastDispatch, cliVars, helloVars>>

\* The connections the dispatcher writes the packet to: clients.Range visits
\* every entry of the map.
DispatchTargets(m, dst) == Stored(m)

\* One iteration of the TUN-reader goroutine of Serve: tunFile.Read, then
\* clients.Range writing the length-prefixed packet to the visited connections;
\* a failed conn.Write deletes the entry.  A failed TUN read is logged and the
\* loop continues.
Dispatch ==
    /\ program = "server"
    /\ srvPc = "accept"
    /\ \E readOk \in BOOLEAN :
       \E dst \in (IF readOk THEN DstIPs ELSE {NoIP}) :
       \E failed \in (IF readOk THEN SUBSET DispatchTargets(clients, dst) ELSE {{}}) :
         IF readOk
         THEN /\ lastDispatch' = [read |-> "ok", dst |-> dst,
                                  wroteTo |-> DispatchTargets(clients, dst) \ failed]
              /\ clients' = [k \in {x \in DOMAIN clients : clients[x] \notin failed}
                               |-> clients[k]]
         ELSE /\ lastDispatch' = [read |-> "err", dst |-> NoIP, wroteTo |-> {}]
              /\ UNCHANGED clients
    /\ UNCHANGED <<program, srvPc, iptables, connState, innerIP, lastFrame, sawOversize, cliVars, helloVars>>

\* The server process is terminated while Serve runs: a SIGINT / SIGTERM (Serve
\* and main install no handler, so the default disposition ends the process)
\* or a panic in one of the goroutines Serve started.  Neither runs Serve's
\* deferred disableNAT / clearForwarding.  The process's map, connections and
\* goroutines are gone; the kernel's rule table is what stays.
Signal ==
    /\ program = "server"
    /\ srvPc \in {"start", "accept"}
    /\ srvPc' = "killed"
    /\ clients' = << >>
    /\ connState' = [c \in Conns |-> "none"]
    /\ innerIP' = [c \in Conns |-> NoIP]
    /\ lastFrame' = [c \in Conns |-> NoFrame]
    /\ sawOversize' = [c \in Conns |-> FALSE]
    /\ lastDispatch' = NoDispatch
    /\ UNCHANGED <<program, iptables, cliVars, helloVars>>


\* ------------------------------------------------------------ AEAD session
\* A sealed frame is identified by what it was sealed under: the direction
\* (key and AAD direction tag), the counter (nonce and AAD counter), and
\* whether its bytes still authenticate ("ok") or were altered in transit ("bad").
Keys == {"serverKey", "otherKey"}
NoSession == [C2SCounter |-> 0, S2CCounter |-> 0, SessionId |-> "none"]
NoServerHello == [signer |-> "none", transcript |-> "none"]
NoRx == [stage |-> "none", length |-> 0, ctrBefore |-> 0, wrote |-> FALSE]
NoTx == [stage |-> "none", length |-> 0]
NoWriters == [C2S |-> {}, S2C |-> {}]

\* the programs that run the client's main
MainPrograms == {"client", "longrun"}
\* The counter value both directions of the session start from in this
\* behaviour: 0 for a session just registered; 2^64 - 2 when the behaviour
\* picks the client up after it has sealed and accepted 2^64 - 2 frames.
LongRunStart == Uint64Max - 1
WindowStart == IF program = "longrun" THEN LongRunStart ELSE 0

\* len(encryptedPacket) for a plaintext of n bytes
EncryptedLen(n) == n + Overhead

\* the pumps that have changed each counter, after `pump` took session s to t
Written(w, pump, s, t) ==
    [C2S |-> IF t.C2SCounter # s.C2SCounter THEN w.C2S \cup {pump} ELSE w.C2S,
     S2C |-> IF t.S2CCounter # s.S2CCounter THEN w.S2C \cup {pump} ELSE w.S2C]

\* session.CreateAAD(isServerToClient, counter): direction tag and counter
CreateAAD(isServerToClient, counter) ==
    [dir |-> IF isServerToClient THEN "s2c" ELSE "c2s", ctr |-> counter]

\* session.Encrypt(plaintext, aad) of the client's main: the frame sealed under aad
Seal(aad) == [dir |-> aad.dir, ctr |-> aad.ctr, tag |-> "ok"]

\* session.Decrypt(frame, aad) succeeds iff the frame holds a tag (16 bytes),
\* authenticates, and was sealed under the same direction and counter
Open(length, f, aad) ==
    /\ length >= 16
    /\ f.tag = "ok"
    /\ f.dir = aad.dir
    /\ f.ctr = aad.ctr

\* the increment forgotten
AddUint64Stuck(counter) == counter

\* atomic.AddUint64(&counter, 1): modulo 2^64, see Uint64Max
AddUint64(counter) == counter + 1

\* Frames the network can hand to the client's reader: any frame the server has
\* sent so far, again and in any order, intact or altered; any frame the client
\* itself sent (a cross-direction splice); or bytes nobody sealed.
RxFrames ==
    {[dir |-> "s2c", ctr |-> WindowStart + c, tag |-> t] :
        c \in 0..(s2cSent - 1), t \in {"ok", "bad"}}
    \cup {[dir |-> "c2s", ctr |-> encNonces[i], tag |-> "ok"] : i \in DOMAIN encNonces}
    \cup {[dir |-> "s2c", ctr |-> 0, tag |-> "bad"]}

\* The server seals its next frame (the s2cSent-th of this behaviour) and sends it.
PeerSend ==
    /\ program \in MainPrograms \cup {"forward"}
    /\ session # NoSession
    /\ cliConn = "open"
    /\ s2cSent < MaxCounter
    /\ s2cSent' = s2cSent + 1
    /\ UNCHANGED <<program, srvVars, cliPc, confKey, hsSent, serverHello, session, sendPc,
                   recvPc, ctxDone, cliConn, encNonces, accepted, lastRx, lastTx, writers,
                   helloVars>>

\* ------------------------------------------------------- client: register
\* log.Fatalf: os.Exit(1) ends the process, its goroutines and its sockets
Killed(pc) == IF pc = "off" THEN "off" ELSE "killed"

\* ServerHello.Read: `if len(data) < 128` is an error
ServerHelloReadOk(n) == ~(n < 128)

\* the signature checked against the key that made it, not the configured one
ServerSignatureSelfKey(key, sh) == sh.transcript = "this"

\* ed25519.Verify(serverEdPub, curvePublicKey || serverNonce || nonce, signature):
\* the signature verifies iff it was made with the configured key over this
\* handshake's transcript
ServerSignatureOk(key, sh) == sh.signer = key /\ sh.transcript = "this"

\* register up to conn.Write(ClientHello); an error makes main log.Fatalf
RegisterHello ==
    /\ program = "client"
    /\ cliPc = "hello"
    /\ \E r \in {"ok", "keygen_err", "serialize_err", "write_err"} :
         IF r = "ok"
         THEN /\ hsSent' = hsSent \cup {"ClientHello"}
              /\ cliPc' = "serverHello"
              /\ UNCHANGED cliConn
         ELSE /\ cliPc' = "exited"
              /\ cliConn' = "closed"
              /\ UNCHANGED hsSent
    /\ UNCHANGED <<program, srvVars, confKey, serverHello, session, sendPc, recvPc, ctxDone,
                   s2cSent, encNonces, accepted, lastRx, lastTx, writers, helloVars>>

\* register from conn.Read(sHBuf) to the signature check
RegisterServerHello ==
    /\ program = "client"
    /\ cliPc = "serverHello"
    /\ \E r \in {"ok", "read_err", "conf_err", "base64_err"},
          signer \in Keys, transcript \in {"this", "other"} :
         LET sh == [signer |-> signer, transcript |-> transcript] IN
         IF r = "ok" /\ ServerHelloReadOk(128)
         THEN /\ serverHello' = sh
              /\ IF ServerSignatureOk(confKey, sh)
                 THEN cliPc' = "signature" /\ UNCHANGED cliConn
                 ELSE cliPc' = "exited" /\ cliConn' = "closed"
         ELSE /\ cliPc' = "exited"
              /\ cliConn' = "closed"
              /\ UNCHANGED serverHello
    /\ UNCHANGED <<program, srvVars, confKey, hsSent, session, sendPc, recvPc, ctxDone,
                   s2cSent, encNonces, accepted, lastRx, lastTx, writers, helloVars>>

\* sha256.Sum256(sharedSecret || salt)
SessionIdOf(sh) == <<"sha256", sh.signer, sh.transcript>>

\* register from ed25519.Sign to return, then main starts the two pumps
RegisterSignature ==
    /\ program = "client"
    /\ cliPc = "signature"
    /\ \E r \in {"ok", "serialize_err", "write_err", "session_err"} :
         /\ hsSent' = IF r \in {"ok", "session_err"}
                      THEN hsSent \cup {"ClientSignature"} ELSE hsSent
         /\ IF r = "ok"
            THEN /\ session' = [C2SCounter |-> 0, S2CCounter |-> 0,
                                SessionId |-> SessionIdOf(serverHello)]
                 /\ cliPc' = "running"
                 /\ sendPc' = "run"
                 /\ recvPc' = "run"
                 /\ UNCHANGED cliConn
            ELSE /\ cliPc' = "exited"
                 /\ cliConn' = "closed"
                 /\ UNCHANGED <<session, sendPc, recvPc>>
    /\ UNCHANGED <<program, srvVars, confKey, serverHello, ctxDone,
                   s2cSent, encNonces, accepted, lastRx, lastTx, writers, helloVars>>

\* ------------------------------------------------- client: main's two pumps
\* atomic.AddUint64(&session.C2SCounter, 1)
AdvanceSend(s) == [s EXCEPT !.C2SCounter = AddUint64(@)]

\* the receive loop advancing the send counter
AdvanceRecvSendCounter(s) == [s EXCEPT !.C2SCounter = AddUint64(@)]

\* atomic.AddUint64(&session.S2CCounter, 1)
AdvanceRecv(s) == [s EXCEPT !.S2CCounter = AddUint64(@)]

\* aad := session.CreateAAD(false, session.C2SCounter)
SendAAD(s) == CreateAAD(FALSE, s.C2SCounter)
\* the receive AAD built from the wrong counter
RecvAADSendCounter(s) == CreateAAD(TRUE, s.C2SCounter)

\* aad := session.CreateAAD(true, session.S2CCounter)
RecvAAD(s) == CreateAAD(TRUE, s.S2CCounter)

\* One iteration of main's TUN -> TCP goroutine: tunFile.Read, CreateAAD,
\* Encrypt, AddUint64, conn.Write; every error is a log.Fatalf.
mainToTCP ==
    /\ program \in MainPrograms
    /\ sendPc = "run"
    /\ Len(encNonces) < MaxCounter
    /\ \E tun \in {"ok", "err"} :
       \E enc \in (IF tun = "ok" THEN {"ok", "err"} ELSE {"ok"}) :
       \E wr \in (IF tun = "ok" /\ enc = "ok" THEN {"ok", "err"} ELSE {"ok"}) :
       \E n \in (IF tun = "ok" /\ enc = "ok" THEN PacketSizes ELSE {0}) :
         /\ IF tun = "ok" /\ enc = "ok"
            THEN /\ encNonces' = Append(encNonces, Seal(SendAAD(session)).ctr)
                 /\ session' = AdvanceSend(session)
            ELSE UNCHANGED <<encNonces, session>>
         /\ writers' = Written(writers, "send", session, session')
         /\ lastTx' = IF tun = "err" THEN [stage |-> "tun_err", length |-> 0]
                      ELSE IF enc = "err" THEN [stage |-> "enc_err", length |-> 0]
                      ELSE [stage |-> IF wr = "ok" THEN "ok" ELSE "write_err",
                            length |-> EncryptedLen(n)]
         /\ IF tun = "ok" /\ enc = "ok" /\ wr = "ok"
            THEN UNCHANGED <<cliPc, sendPc, recvPc, cliConn>>
            ELSE /\ cliPc' = "exited"
                 /\ sendPc' = Killed(sendPc)
                 /\ recvPc' = Killed(recvPc)
                 /\ cliConn' = "closed"
    /\ UNCHANGED <<program, srvVars, confKey, hsSent, serverHello, ctxDone,
                   s2cSent, accepted, lastRx, helloVars>>

\* `if length > 65535` of main
mainPacketTooLarge(length) == length > ClientMaxPacket

\* the decryption error logged and ignored
mainDecryptIgnored(s, length) ==
    [stage |-> "decrypt_err", length |-> length,
     session |-> [s EXCEPT !.S2CCounter = @ + 1], wrote |-> TRUE,
     opened |-> FALSE, next |-> "run"]

\* main after session.Decrypt returned an error: log.Fatalf
mainDecryptFailed(s, length) ==
    [stage |-> "decrypt_err", length |-> length, session |-> s, wrote |-> FALSE,
     opened |-> FALSE, next |-> "fatal"]

\* One iteration of main's TCP -> TUN loop on one frame:
\*   hdr, body : results of the two io.ReadFull;  f : the frame's bytes;
\*   tun : result of tunFile.Write
mainRecv(s, hdr, prefix, body, f, tun) ==
    LET length == BigEndianUint32(prefix)
        stop(stage, len, next) ==
            [stage |-> stage, length |-> len, session |-> s, wrote |-> FALSE,
             opened |-> FALSE, next |-> next]
    IN
    IF hdr = "eof" THEN stop("eof", 0, "return")
    ELSE IF hdr = "err" THEN stop("hdr_err", 0, "fatal")
    ELSE IF mainPacketTooLarge(length) THEN stop("too_large", length, "fatal")
    ELSE IF length > 0 /\ body # "ok" THEN stop("body_err", length, "fatal")
    ELSE IF ~Open(length, f, RecvAAD(s)) THEN mainDecryptFailed(s, length)
    ELSE [stage |-> IF tun = "ok" THEN "ok" ELSE "tun_err", length |-> length,
          session |-> AdvanceRecv(s), wrote |-> TRUE,
          opened |-> TRUE, next |-> IF tun = "ok" THEN "run" ELSE "fatal"]

\* The inputs of one receive iteration: results that cannot be reached for the
\* chosen earlier ones are fixed to "ok".
RxInputs ==
    {in \in [hdr : {"ok", "eof", "err"}, prefix : Prefixes, body : {"ok", "err"},
             f : RxFrames, tun : {"ok", "err"}] :
        /\ in.hdr # "ok" => (in.prefix = <<0, 0, 0, 0>> /\ in.body = "ok")
        /\ (in.hdr # "ok" \/ in.body # "ok" \/ BigEndianUint32(in.prefix) > 65535)
              => (in.tun = "ok" /\ in.f = [dir |-> "s2c", ctr |-> 0, tag |-> "bad"])
        /\ BigEndianUint32(in.prefix) > 65535 => in.body = "ok"
        /\ in.f.tag = "bad" => in.tun = "ok"}

mainToTun ==
    /\ program \in MainPrograms
    /\ recvPc = "run"
    /\ Len(accepted) <= MaxCounter
    /\ \E in \in RxInputs :
         LET r == mainRecv(session, in.hdr, in.prefix, in.body, in.f, in.tun) IN
         /\ lastRx' = [stage |-> r.stage, length |-> r.length,
                       ctrBefore |-> session.S2CCounter, wrote |-> r.wrote]
         /\ session' = r.session
         /\ writers' = Written(writers, "recv", session, session')
         /\ accepted' = IF r.opened \/ r.wrote THEN Append(accepted, in.f.ctr) ELSE accepted
         /\ IF r.next = "run"
            THEN UNCHANGED <<cliPc, sendPc, recvPc, cliConn>>
            ELSE /\ cliPc' = IF r.next = "return" THEN "returned" ELSE "exited"
                 /\ sendPc' = Killed(sendPc)
                 /\ recvPc' = Killed(recvPc)
                 /\ cliConn' = "closed"
    /\ UNCHANGED <<program, srvVars, confKey, hsSent, serverHello, ctxDone,
                   s2cSent, encNonces, lastTx, helloVars>>

\* ------------------------------------------- clienttcptunforward: the pumps
\* session.Encrypt(plaintext): seals under the send counter and consumes it
SessionEncrypt(s) ==
    [frame |-> Seal(CreateAAD(FALSE, s.C2SCounter)),
     session |-> [s EXCEPT !.C2SCounter = @ + 1]]

\* session.Decrypt(frame): opens under the receive counter; the counter advances
\* on success only
SessionDecrypt(s, length, f) ==
    IF Open(length, f, CreateAAD(TRUE, s.S2CCounter))
    THEN [ok |-> TRUE, session |-> [s EXCEPT !.S2CCounter = @ + 1]]
    ELSE [ok |-> FALSE, session |-> s]

\* The caller of ToTCP / ToTun cancels their context.
CtxCancel ==
    /\ program = "forward"
    /\ ~ctxDone
    /\ ctxDone' = TRUE
    /\ UNCHANGED <<program, srvVars, cliPc, confKey, hsSent, serverHello, session, sendPc,
                   recvPc, cliConn, s2cSent, encNonces, accepted, lastRx, lastTx, writers,
                   helloVars>>

\* The caller of ToTCP / ToTun, once one of the two has returned, cancels the
\* context the two share and closes the connection.
PumpExitCancels ==
    /\ program = "forward"
    /\ sendPc = "returned" \/ recvPc = "returned"
    /\ ~ctxDone \/ cliConn = "open"
    /\ ctxDone' = TRUE
    /\ cliConn' = "closed"
    /\ UNCHANGED <<program, srvVars, cliPc, confKey, hsSent, serverHello, session, sendPc,
                   recvPc, s2cSent, encNonces, accepted, lastRx, lastTx, writers, helloVars>>

\* The select at the head of the loop of ToTCP (pump = "send") or ToTun
\* (pump = "recv"): return when ctx is done, else go on to the blocking read.
PumpSelect(pump) ==
    /\ program = "forward"
    /\ IF pump = "send"
       THEN /\ sendPc = "select"
            /\ sendPc' = IF ctxDone THEN "returned" ELSE "io"
            /\ UNCHANGED recvPc
       ELSE /\ recvPc = "select"
            /\ recvPc' = IF ctxDone THEN "returned" ELSE "io"
            /\ UNCHANGED sendPc
    /\ UNCHANGED <<program, srvVars, cliPc, confKey, hsSent, serverHello, session, ctxDone,
                   cliConn, s2cSent, encNonces, accepted, lastRx, lastTx, writers, helloVars>>

\* ToTCP's default branch: tunFile.Read, session.Encrypt, conn.Write.
\* A failed read returns when ctx is done and is retried otherwise; a failed
\* encryption is retried; a failed write returns.  A write to a closed
\* connection fails.
ToTCP ==
    /\ program = "forward"
    /\ sendPc = "io"
    /\ \E tun \in {"ok", "err"} :
       \E enc \in (IF tun = "ok" THEN {"ok", "err"} ELSE {"ok"}) :
       \E wr \in (IF tun = "ok" /\ enc = "ok"
                   THEN (IF cliConn = "open" THEN {"ok", "err"} ELSE {"err"})
                   ELSE {"ok"}) :
       \E n \in (IF tun = "ok" /\ enc = "ok" THEN PacketSizes ELSE {0}) :
         /\ (tun = "ok" /\ enc = "ok") => Len(encNonces) < MaxCounter
         /\ IF tun = "err"
            THEN /\ sendPc' = IF ctxDone THEN "returned" ELSE "select"
                 /\ lastTx' = [stage |-> "tun_err", length |-> 0]
                 /\ UNCHANGED <<session, encNonces>>
            ELSE IF enc = "err"
            THEN /\ sendPc' = "select"
                 /\ lastTx' = [stage |-> "enc_err", length |-> 0]
                 /\ UNCHANGED <<session, encNonces>>
            ELSE /\ encNonces' = Append(encNonces, SessionEncrypt(session).frame.ctr)
                 /\ session' = SessionEncrypt(session).session
                 /\ sendPc' = IF wr = "ok" THEN "select" ELSE "returned"
                 /\ lastTx' = [stage |-> IF wr = "ok" THEN "ok" ELSE "write_err",
                               length |-> EncryptedLen(n)]
         /\ writers' = Written(writers, "send", session, session')
    /\ UNCHANGED <<program, srvVars, cliPc, confKey, hsSent, serverHello, recvPc, ctxDone,
                   cliConn, s2cSent, accepted, lastRx, helloVars>>

\* `if length > maxPacketLengthBytes` of ToTun
toTunPacketTooLarge(length) == length > maxPacketLengthBytes

\* ToTun's default branch on one frame; every failure returns
toTunFrame(s, hdr, prefix, body, f, tun) ==
    LET length == BigEndianUint32(prefix)
        stop(stage, len) ==
            [stage |-> stage, length |-> len, session |-> s, wrote |-> FALSE,
             opened |-> FALSE, next |-> "return"]
        d == SessionDecrypt(s, length, f)
    IN
    IF hdr = "eof" THEN stop("eof", 0)
    ELSE IF hdr = "err" THEN stop("hdr_err", 0)
    ELSE IF toTunPacketTooLarge(length) THEN stop("too_large", length)
    ELSE IF length > 0 /\ body # "ok" THEN stop("body_err", length)
    ELSE IF ~d.ok THEN stop("decrypt_err", length)
    ELSE [stage |-> IF tun = "ok" THEN "ok" ELSE "tun_err", length |-> length,
          session |-> d.session, wrote |-> TRUE, opened |-> TRUE,
          next |-> IF tun = "ok" THEN "run" ELSE "return"]

\* A read from a closed connection fails.
ToTun ==
    /\ program = "forward"
    /\ recvPc = "io"
    /\ Len(accepted) <= MaxCounter
    /\ \E in \in RxInputs :
         LET r == toTunFrame(session, in.hdr, in.prefix, in.body, in.f, in.tun) IN
         /\ cliConn = "closed" => in.hdr = "err"
         /\ lastRx' = [stage |-> r.stage, length |-> r.length,
                       ctrBefore |-> session.S2CCounter, wrote |-> r.wrote]
         /\ session' = r.session
         /\ writers' = Written(writers, "recv", session, session')
         /\ accepted' = IF r.opened \/ r.wrote THEN Append(accepted, in.f.ctr) ELSE accepted
         /\ recvPc' = IF r.next = "run" THEN "select" ELSE "returned"
    /\ UNCHANGED <<program, srvVars, cliPc, confKey, hsSent, serverHello, sendPc, ctxDone,
                   cliConn, s2cSent, encNonces, lastTx, helloVars>>

\* ------------------------------------------------ handshake: ClientHello
\* data []byte: the bytes of the slice and its capacity (slicing is checked
\* against the capacity; bytes between length and capacity are whatever the
\* underlying buffer holds, written 256 here)
ByteAt(d, i) == IF i <= Len(d.bytes) THEN d.bytes[i] ELSE 256
\* data[lo:hi]; not ok when the bounds are out of range (a run-time panic)
Slice(d, lo, hi) ==
    IF lo > hi \/ hi > d.cap
    THEN [ok |-> FALSE, bytes |-> << >>]
    ELSE [ok |-> TRUE, bytes |-> [i \in 1..(hi - lo) |-> ByteAt(d, lo + i)]]

\* uint8 arithmetic
Uint8(n) == n % 256

\* &ClientHello{}
NewClientHello == [IpVersion |-> 0, IpAddressLength |-> 0, IpAddress |-> << >>,
                   PublicKey |-> [i \in 1..32 |-> 0]]
NoHello == [IpVersion |-> 0, IpAddressLength |-> 0, IpAddress |-> << >>, PublicKey |-> << >>]

\* the version check accepting every non-zero version
ValidIpVersionNonZero(v) == v # 0

\* `m.IpVersion != 4 && m.IpVersion != 6` is an error
ValidIpVersion(v) == v = 4 \/ v = 6

\* (m *ClientHello) Read(data): the error, or the panic of an out-of-range
\* index or slice, or the parsed hello
ClientHelloRead(m, d) ==
    LET n == Len(d.bytes)
        failed(kind) == [kind |-> kind, hello |-> NoHello]
    IN
    IF n < Uint8(2 + m.IpAddressLength + 32) THEN failed("err_length")
    ELSE IF n < 1 THEN failed("panic")
    ELSE IF ~ValidIpVersion(d.bytes[1]) THEN failed("err_version")
    ELSE IF n < 2 THEN failed("panic")
    ELSE LET ipLen == d.bytes[2]
             ip == Slice(d, 2, Uint8(2 + ipLen))
             key == Slice(d, Uint8(2 + ipLen), Uint8(32 + 2 + ipLen))
         IN  IF ~ip.ok \/ ~key.ok THEN failed("panic")
             ELSE [kind |-> "ok",
                   hello |-> [IpVersion |-> d.bytes[1], IpAddressLength |-> ipLen,
                              IpAddress |-> ip.bytes,
                              PublicKey |-> [i \in 1..32 |->
                                               IF i <= Len(key.bytes) THEN key.bytes[i] ELSE 0]]]

\* The ClientHello messages tried: version byte, ip_len byte, total length
\* and spare capacity of the slice; the other bytes are the digit '1'.
HelloVersions == {0, 4, 5, 6}
HelloIpLens == {0, 7, 15, 40, 222, 254}
HelloLens == {0, 1, 2, 33, 34, 41, 49, 50}
HelloSpare == {0, 300}
MakeHello(v, ipLen, n, spare) ==
    [bytes |-> [i \in 1..n |-> IF i = 1 THEN v ELSE IF i = 2 THEN ipLen ELSE 49],
     cap |-> n + spare]
HelloInputs ==
    {MakeHello(v, l, n, sp) : v \in HelloVersions, l \in HelloIpLens,
                              n \in HelloLens, sp \in HelloSpare}
NoOutput == [kind |-> "pending", hello |-> NoHello]

\* The server parses the ClientHello it received into a fresh ClientHello.
ReadClientHello ==
    /\ program = "hello"
    /\ helloOut = NoOutput
    /\ helloOut' = ClientHelloRead(NewClientHello, helloIn)
    /\ UNCHANGED <<program, srvVars, cliVars, helloIn, shFields, shWire, shRead>>

\* ------------------------------------------------ handshake: ServerHello
\* make([]byte, n)
MakeBytes(n) == [i \in 1..n |-> 0]
\* copy(dst[off:], src): as many bytes as fit
Copy(dst, off, src) ==
    [i \in 1..Len(dst) |->
        IF i > off /\ i - off <= Len(src) THEN src[i - off] ELSE dst[i]]

NoFields == [signature |-> << >>, nonce |-> << >>, curvePublicKey |-> << >>]

\* (m *ServerHello) Write(signature, nonce, curvePublicKey): the error, or the
\* three fields copied one after the other into a new array
ServerHelloWrite(signature, nonce, curvePublicKey) ==
    IF Len(signature) # 64 THEN [kind |-> "err_signature", bytes |-> << >>]
    ELSE IF Len(nonce) # 32 THEN [kind |-> "err_nonce", bytes |-> << >>]
    ELSE IF Len(curvePublicKey) # 32 THEN [kind |-> "err_key", bytes |-> << >>]
    ELSE LET arr == MakeBytes(Len(signature) + Len(nonce) + Len(curvePublicKey)) IN
         [kind |-> "ok",
          bytes |-> Copy(Copy(Copy(arr, 0, signature), Len(signature), nonce),
                         Len(signature) + Len(nonce), curvePublicKey)]

\* the nonce and the curve key taken from each other's place
ServerHelloReadSwapped(data) ==
    IF ~ServerHelloReadOk(Len(data)) THEN [kind |-> "err", fields |-> NoFields]
    ELSE LET d == [bytes |-> data, cap |-> Len(data)] IN
         [kind |-> "ok",
          fields |-> [signature |-> Slice(d, 0, 64).bytes,
                      nonce |-> Slice(d, 64 + 32, 128).bytes,
                      curvePublicKey |-> Slice(d, 64, 64 + 32).bytes]]

\* (s *ServerHello) Read(data): the error, or data[:64], data[64:96], data[96:128]
ServerHelloRead(data) ==
    IF ~ServerHelloReadOk(Len(data)) THEN [kind |-> "err", fields |-> NoFields]
    ELSE LET d == [bytes |-> data, cap |-> Len(data)] IN
         [kind |-> "ok",
          fields |-> [signature |-> Slice(d, 0, 64).bytes,
                      nonce |-> Slice(d, 64, 64 + 32).bytes,
                      curvePublicKey |-> Slice(d, 64 + 32, 128).bytes]]

\* The fields tried: each of its right length, one short, one long (and an
\* empty signature); the bytes of a field count up from a base of its own.
FieldBytes(base, n) == [i \in 1..n |-> (base + i) % 256]
ShFieldInputs ==
    {[signature |-> FieldBytes(0, a), nonce |-> FieldBytes(100, b),
      curvePublicKey |-> FieldBytes(200, c)] :
        a \in {0, 63, 64, 65}, b \in {31, 32, 33}, c \in {31, 32, 33}}
NoWire == [kind |-> "pending", bytes |-> << >>]
NoShRead == [data |-> << >>, kind |-> "pending", fields |-> NoFields]

\* The server builds its ServerHello.
WriteServerHello ==
    /\ program = "shello"
    /\ shWire = NoWire
    /\ shWire' = ServerHelloWrite(shFields.signature, shFields.nonce, shFields.curvePublicKey)
    /\ UNCHANGED <<program, srvVars, cliVars, helloIn, helloOut, shFields, shRead>>

\* The client parses what arrived: the bytes Write returned (when it failed,
\* the fields as they are, one after the other), whole, cut short, or with a
\* byte more.
ReadServerHello ==
    /\ program = "shello"
    /\ shWire # NoWire
    /\ shRead = NoShRead
    /\ LET sent == IF shWire.kind = "ok" THEN shWire.bytes
                   ELSE shFields.signature \o shFields.nonce \o shFields.curvePublicKey
       IN \E data \in {sent, SubSeq(sent, 1, 0), SubSeq(sent, 1, Len(sent) - 1),
                        Append(sent, 7)} :
            shRead' = [data |-> data, kind |-> ServerHelloRead(data).kind,
                       fields |-> ServerHelloRead(data).fields]
    /\ UNCHANGED <<program, srvVars, cliVars, helloIn, helloOut, shFields, shWire>>

\* ------------------------------------------------------------------ spec
\* "longrun" is the client's main picked up late in a session: registered,
\* both pumps running, both counters at LongRunStart.
Programs == {"server", "client", "longrun", "forward", "hello", "shello"}
EstablishedSession(start) ==
    [C2SCounter |-> start, S2CCounter |-> start,
     SessionId |-> SessionIdOf([signer |-> "serverKey", transcript |-> "this"])]

Init ==
    /\ program \in Programs
    /\ srvPc = "start"
    /\ iptables = {}
    /\ clients = << >>
    /\ connState = [c \in Conns |-> "none"]
    /\ innerIP = [c \in Conns |-> NoIP]
    /\ lastFrame = [c \in Conns |-> NoFrame]
    /\ sawOversize = [c \in Conns |-> FALSE]
    /\ lastDispatch = NoDispatch
    /\ cliPc = IF program = "client" THEN "hello"
               ELSE IF program = "longrun" THEN "running" ELSE "none"
    /\ confKey \in (IF program = "client" THEN Keys ELSE {"serverKey"})
    /\ hsSent = IF program = "longrun" THEN {"ClientHello", "ClientSignature"} ELSE {}
    /\ serverHello = IF program = "longrun"
                     THEN [signer |-> "serverKey", transcript |-> "this"]
                     ELSE NoServerHello
    \* ToTCP and ToTun are handed an established session and an open connection
    /\ session = IF program = "forward" THEN EstablishedSession(0)
                 ELSE IF program = "longrun" THEN EstablishedSession(LongRunStart)
                 ELSE NoSession
    /\ sendPc = IF program = "forward" THEN "select"
                ELSE IF program = "longrun" THEN "run" ELSE "off"
    /\ recvPc = IF program = "forward" THEN "select"
                ELSE IF program = "longrun" THEN "run" ELSE "off"
    /\ ctxDone = FALSE
    /\ cliConn = "open"
    /\ s2cSent = 0
    /\ encNonces = << >>
    /\ accepted = << >>
    /\ lastRx = NoRx
    /\ lastTx = NoTx
    /\ writers = NoWriters
    /\ helloIn \in (IF program = "hello" THEN HelloInputs ELSE {MakeHello(0, 0, 0, 0)})
    /\ helloOut = NoOutput
    /\ shFields \in (IF program = "shello" THEN ShFieldInputs ELSE {NoFields})
    /\ shWire = NoWire
    /\ shRead = NoShRead

Next ==
    \/ ServeStartup
    \/ Accept
    \/ \E c \in Conns : handleClient(c)
    \/ Dispatch
    \/ Signal
    \/ PeerSend
    \/ RegisterHello
    \/ RegisterServerHello
    \/ RegisterSignature
    \/ mainToTCP
    \/ mainToTun
    \/ CtxCancel
    \/ PumpExitCancels
    \/ \E pump \in {"send", "recv"} : PumpSelect(pump)
    \/ ToTCP
    \/ ToTun
    \/ ReadClientHello
    \/ WriteServerHello
    \/ ReadServerHello

Spec == Init /\ [][Next]_vars

\* What the scheduling guarantees: a goroutine that can run without waiting for
\* input does run (Serve's startup, the select at the head of a pump's loop,
\* the caller reacting to a pump that returned).  A blocking read or Accept
\* returns only when the peer or the device makes it.
FairSpec ==
    /\ Spec
    /\ WF_vars(ServeStartup)
    /\ WF_vars(PumpSelect("send"))
    /\ WF_vars(PumpSelect("recv"))
    /\ WF_vars(PumpExitCancels)

\* ---------------------------------------------------------------- claims
\* C1: for every packet the dispatcher reads from the server TUN, a frame is
\* written only to the connection whose client declared the packet's
\* destination inner IP; when nobody declared it, nothing is written.
C1_DispatchOnlyToDestination ==
    \A c \in lastDispatch.wroteTo : innerIP[c] = lastDispatch.dst

\* C2: a frame sealed under counter c is accepted only when counter_recv = c,
\* and after acceptance counter_recv = c + 1: the frames accepted so far are
\* those of counters 0, 1, 2, ... in this order and counter_recv is their number.
C2_AcceptOnlyExpectedCounter ==
    /\ \A i \in DOMAIN accepted : accepted[i] = WindowStart + i - 1
    /\ session.S2CCounter = WindowStart + Len(accepted)

C2_Witness ==
    /\ program = "client"
    /\ accepted = <<0, 1>>
    /\ session.S2CCounter = 2
    /\ lastRx.stage = "ok"

\* C3: no two frames of the TUN -> TCP pump were sealed under the same counter.
C3_NonceUsedOnce ==
    \A i, j \in DOMAIN encNonces : i # j => encNonces[i] # encNonces[j]

C3_Witness ==
    /\ program = "client"
    /\ Len(encNonces) = 2
    /\ cliPc = "exited"

\* C4: the dispatch mapping never holds two connections that declared the
\* same inner IP.
C4_OneEntryPerInnerIP ==
    \A k1, k2 \in DOMAIN clients :
        innerIP[clients[k1]] = innerIP[clients[k2]] => k1 = k2

C6_BadLengthRejected ==
    /\ \A c \in Conns :
         (lastFrame[c].hdr = "ok" /\ (lastFrame[c].length = 0 \/ lastFrame[c].length > 65535))
            => (~lastFrame[c].wrote /\ connState[c] = "closed")
    /\ (lastRx.stage \notin {"none", "eof", "hdr_err"}
          /\ (lastRx.length = 0 \/ lastRx.length > 65535))
            => (~lastRx.wrote /\ recvPc \in {"killed", "returned"})

\* C7: once a length prefix > 65535 has been received on a connection, the
\* connection is closed and out of the map, and that frame is the last one the
\* reader handled: no TUN write for it or for anything after it.
C7_OversizeClosesWithoutTun ==
    \A c \in Conns :
        sawOversize[c] =>
            /\ connState[c] = "closed"
            /\ RemoteAddr(c) \notin DOMAIN clients
            /\ lastFrame[c].length > 65535
            /\ ~lastFrame[c].wrote

C7_Witness ==
    \E c \in Conns : sawOversize[c] /\ lastFrame[c].length = 65536

Superseded(c) ==
    \E d \in Conns : d > c /\ connState[d] # "none" /\ innerIP[d] = innerIP[c]

\* C9: once a newer connection with the same inner IP is installed, the older
\* one is no longer in the mapping and the dispatcher writes no further frame
\* to it.
C9_NewerHelloEvictsOlder ==
    /\ [](\A c \in Conns : Superseded(c) => c \notin Stored(clients))
    /\ [][\A c \in Conns :
            (Superseded(c) /\ lastDispatch' # lastDispatch)
                => c \notin lastDispatch'.wroteTo]_vars

\* C10: when the ServerHello was signed with another key than the configured
\* one, the client has exited having sent only its ClientHello: no
\* ClientSignature, no Session, no session id, no pump started, no frame
\* sealed or accepted.
C10_WrongServerKeyAborts ==
    (serverHello # NoServerHello /\ serverHello.signer # confKey) =>
        /\ cliPc = "exited"
        /\ hsSent = {"ClientHello"}
        /\ session = NoSession
        /\ sendPc = "off" /\ recvPc = "off"
        /\ encNonces = << >> /\ accepted = << >>
        /\ lastRx = NoRx

C10_Witness ==
    /\ confKey = "otherKey"
    /\ serverHello = [signer |-> "serverKey", transcript |-> "this"]
    /\ cliPc = "exited"

\* C11: the NAT and forwarding rules installed at startup are released on every
\* exit path of the server, termination by a signal or a panic included: once
\* the server process has been terminated, no rule is left installed.
C11_RulesReleasedOnTermination ==
    srvPc = "killed" => iptables = {}

\* a pump's last iteration failed or ended its loop
PumpFailed ==
    \/ lastTx.stage \in {"tun_err", "enc_err", "write_err"}
    \/ lastRx.stage \in {"eof", "hdr_err", "too_large", "body_err", "decrypt_err", "tun_err"}

\* both pumps have been told to stop and the connection is closed: the
\* process of main has ended, or the context of ToTCP / ToTun is cancelled
PumpsCancelledAndClosed ==
    /\ cliConn = "closed"
    /\ IF program = "forward" THEN ctxDone ELSE cliPc \in {"exited", "returned"}

\* C12: when one pump of a connection fails (TUN read, encryption, TCP read or
\* write, decryption, EOF), then eventually its peer pump is cancelled and the
\* connection is closed.
C12_PumpFailureCancelsPeer ==
    PumpFailed ~> PumpsCancelledAndClosed

\* C13: every frame the sending pump puts on the wire has a ciphertext of at
\* most 65535 bytes: no inner packet larger than 65535 - 16 is framed and sent.
C13_SentFrameWithinLimit ==
    lastTx.stage \in {"ok", "write_err"} => lastTx.length <= 65535

\* C14: a session counter that has reached 2^64 - 1 is never advanced again
\* (the session is aborted instead): no counter wraps to 0.
C14_CounterNeverWraps ==
    [][/\ session.C2SCounter = Uint64Max => session'.C2SCounter = Uint64Max
       /\ session.S2CCounter = Uint64Max => session'.S2CCounter = Uint64Max]_vars

\* C15: in the client's main the send counter is changed by the sending pump
\* only and the receive counter by the receiving pump only, and no increment is
\* lost: each counter has advanced by exactly the number of frames its pump
\* sealed, respectively accepted, and every seal used the next counter value.
C15_SingleWriterPerCounter ==
    program \in MainPrograms =>
        /\ writers.C2S \subseteq {"send"}
        /\ writers.S2C \subseteq {"recv"}
        /\ session.C2SCounter = WindowStart + Len(encNonces)
        /\ session.S2CCounter = WindowStart + Len(accepted)
        /\ \A i \in DOMAIN encNonces : encNonces[i] = WindowStart + i - 1

C15_Witness ==
    /\ program = "client"
    /\ writers = [C2S |-> {"send"}, S2C |-> {"recv"}]
    /\ session.C2SCounter = 2
    /\ session.S2CCounter = 1
    /\ lastTx.stage = "ok" /\ lastRx.stage = "ok"
    /\ cliPc = "running"

\* C16: when the dispatcher's write to a connection fails, the dispatcher
\* removes the connection's record and closes the connection (so that its
\* reader observes EOF and exits): a connection that is out of the mapping is
\* never left open.
C16_DispatchFailureClosesConn ==
    \A c \in Conns : connState[c] = "open" => c \in Stored(clients)

\* C17: a connection is in the dispatch mapping, is written to by the
\* dispatcher, or has a frame of its own handed to the TUN, only after the
\* handshake on it has completed.
C17_InstalledOnlyAfterHandshake ==
    \A c \in Conns :
        (c \in Stored(clients) \/ c \in lastDispatch.wroteTo \/ lastFrame[c].wrote)
            => HandshakeCompleted(c)

\* C18: when the reader of one connection ends on an error, that connection is
\* closed and its entry removed, every other connection and every other entry
\* of the mapping is as it was, and the server is still in its accept loop.
C18_ReaderErrorContained ==
    [][\A c \in Conns :
         (connState[c] = "open" /\ connState'[c] = "closed") =>
            /\ RemoteAddr(c) \notin DOMAIN clients'
            /\ \A k \in DOMAIN clients \ {RemoteAddr(c)} :
                  k \in DOMAIN clients' /\ clients'[k] = clients[k]
            /\ \A d \in Conns \ {c} : connState'[d] = connState[d]
            /\ srvPc' = "accept"
            /\ iptables' = iptables]_vars

C18_Witness ==
    \E c, d \in Conns :
        /\ connState[c] = "closed"
        /\ lastFrame[c].hdr = "ok" /\ lastFrame[c].tun = "err"
        /\ connState[d] = "open"
        /\ d \in Stored(clients)
        /\ srvPc = "accept"

\* a call of listener.Accept failed, or the last read of the server TUN failed
ServerWideError ==
    \/ \E c \in Conns : connState[c] = "failed"
    \/ lastDispatch.read = "err"

\* C19: after a server-wide error (a failure of the accept loop, the TUN
\* closed under the dispatcher) the server eventually stops: it does not stay
\* in its accept loop forever.
C19_ServerWideErrorStopsServer ==
    ServerWideError ~> (srvPc # "accept")

\* C20: when a step of the server's startup fails, the rules installed by the
\* earlier steps have been removed by the time Serve returns.
C20_StartupFailureRolledBack ==
    srvPc = "returned" => iptables = {}

\* C21: ServerHello.Write succeeds exactly for a 64-byte signature, a 32-byte
\* nonce and a 32-byte curve key, and then returns 128 bytes laid out as
\* signature || nonce || curve key; ServerHello.Read of those bytes returns the
\* same three fields, and Read of fewer than 128 bytes returns an error.
C21_ServerHelloRoundTrip ==
    /\ shWire # NoWire =>
          /\ shWire.kind = "ok" <=> (/\ Len(shFields.signature) = 64
                                     /\ Len(shFields.nonce) = 32
                                     /\ Len(shFields.curvePublicKey) = 32)
          /\ shWire.kind = "ok" =>
                /\ Len(shWire.bytes) = 128
                /\ shWire.bytes =
                      shFields.signature \o shFields.nonce \o shFields.curvePublicKey
          /\ shWire.kind # "ok" => shWire.bytes = << >>
    /\ shRead # NoShRead =>
          /\ Len(shRead.data) < 128 => (shRead.kind = "err" /\ shRead.fields = NoFields)
          /\ (shWire.kind = "ok" /\ shRead.data = shWire.bytes) =>
                (shRead.kind = "ok" /\ shRead.fields = shFields)

C21_Witness ==
    /\ shWire.kind = "ok"
    /\ shRead.kind = "ok"
    /\ shRead.data = shWire.bytes
    /\ Len(shRead.data) = 128
    /\ shRead.fields.nonce = FieldBytes(100, 32)

\* C22: ClientHello.Read on a fresh ClientHello never reads past the end of
\* its input: when the declared ip_len does not fit (len(data) < 2 + data[1] +
\* 32, without 8-bit wrap-around) Read returns an error; it neither panics on
\* an out-of-range slice nor returns a hello.
C22_ShortHelloRejected ==
    (/\ helloOut # NoOutput
     /\ Len(helloIn.bytes) >= 2
     /\ Len(helloIn.bytes) < 2 + helloIn.bytes[2] + 32)
        => helloOut.kind \in {"err_length", "err_version"}

\* C23: a connection's teardown removes only its own dispatch record.  When
\* an older connection's reader ends, or the dispatcher deletes the older
\* connection after a failed write, the record of a newer connection that
\* declared the same inner IP is still present afterwards (unless the same
\* dispatch failed to write to it too); and a connection whose record was
\* removed is never in the mapping, nor written to by the dispatcher, again.
C23_TeardownRemovesOnlyOwnRecord ==
    [][/\ \A c, d \in Conns :
            (/\ c < d
             /\ innerIP[c] = innerIP[d]
             /\ d \in Stored(clients)
             /\ connState'[d] = "open"
             /\ \/ connState[c] = "open" /\ connState'[c] = "closed"
                \/ /\ connState' = connState
                   /\ c \in Stored(clients) /\ c \notin Stored(clients')
                   /\ d \in lastDispatch'.wroteTo)
                => d \in Stored(clients')
       /\ \A c \in Conns :
            (connState[c] \in {"open", "closed"} /\ c \notin Stored(clients))
                => /\ c \notin Stored(clients')
                   /\ lastDispatch' # lastDispatch => c \notin lastDispatch'.wroteTo]_vars

C23_Witness ==
    \E c, d \in Conns :
        /\ c < d
        /\ innerIP[c] = innerIP[d]
        /\ connState[c] = "closed"
        /\ c \notin Stored(clients)
        /\ connState[d] = "open"
        /\ d \in Stored(clients)
        /\ d \in lastDispatch.wroteTo
====
